---- MODULE Spec2Model ----
(***************************************************************************)
(* The persistent store of next-shared-store (class EnhancedIndexedDB)     *)
(* over a model of the IndexedDB engine it drives.                         *)
(*                                                                         *)
(* JavaScript scheduling: a caller's call runs synchronously up to its     *)
(* first await (this.init()); the rest of the async function runs later as *)
(* a microtask, microtasks run first-in first-out and the engine delivers  *)
(* an event (a macrotask) only when no microtask is pending.               *)
(*                                                                         *)
(* Engine: every transaction of the store is on the one object store       *)
(* "sharedData", so transactions run in the order they were created; a     *)
(* request's success or error event runs the handler the code installed;   *)
(* after the last event the transaction commits, or aborts and rolls back. *)
(***************************************************************************)
EXTENDS Integers, Sequences, FiniteSets, TLC

\* ---------------------------------------------------------------- bounds
\* Calls the callers issue in one run.
MaxCalls == 2
\* Calls in a run that exports and imports (a write, the export, the import).
MaxPortCalls == 3
\* Last value of the clock (Date.now()); the clock starts at 2.
MaxTime == 4
\* Engine faults (failed open, failed request, failed commit) in one run.
MaxFaults == 1
\* Calls of setMemory and clearMemory in one run.
MaxMemCalls == 3

\* ---------------------------------------------------------------- inputs
\* a category that was not given
UNDEF == "undefined"
\* an optional number: <<>> is undefined / null, <<n>> is the number n
None == <<>>
Some(n) == <<n>>

NoDb == 0
NoPromise == 0
NULL == "null"
PENDING == "pending"
VOID == "void"

NOKEY == "-"
NOVAL == "-"

\* The keys of the runs, in the engine's key order.
KeyRank == ("a" :> 1) @@ ("b" :> 2)

VARIABLES
    now,          \* Date.now()
    db,           \* this.db: NoDb, or the connection (named by its open request)
    initPromise,  \* this.initPromise: NoPromise, or the promise of an open request
    openReqs,     \* open requests the engine has not answered yet
    opens,        \* calls of indexedDB.open so far
    ops,          \* every call of a store method so far (caller's and internal)
    mq,           \* microtask queue: calls whose await this.init() has resolved
    txq,          \* the engine's transactions, in creation order
    records,      \* the object store as the running transaction sees it
    committed,    \* the object store as of the last commit
    calls,        \* calls issued by callers so far
    faults,       \* engine faults so far
    globalStore,  \* memoryStore.ts: the own properties of the table object
    memCalls,     \* the calls of setMemory and clearMemory so far, in order
    location,     \* window.location: the reserved parameter and the rest of the query
    extracted,    \* the calls of extractFromURL so far: what each saw and returned
    hooks         \* the mounted useSharedData hooks

vars == <<now, db, initPromise, openReqs, opens, ops, mq, txq, records,
          committed, calls, faults, globalStore, memCalls, location,
          extracted, hooks>>

\* The state as one value, so that a handler that calls another method is the
\* composition of the two.
Cur ==
    [now |-> now, db |-> db, initPromise |-> initPromise, openReqs |-> openReqs,
     opens |-> opens, ops |-> ops, mq |-> mq, txq |-> txq, records |-> records,
     committed |-> committed, calls |-> calls, faults |-> faults,
     globalStore |-> globalStore, memCalls |-> memCalls,
     location |-> location, extracted |-> extracted, hooks |-> hooks]

Apply(S) ==
    /\ now' = S.now
    /\ db' = S.db
    /\ initPromise' = S.initPromise
    /\ openReqs' = S.openReqs
    /\ opens' = S.opens
    /\ ops' = S.ops
    /\ mq' = S.mq
    /\ txq' = S.txq
    /\ records' = S.records
    /\ committed' = S.committed
    /\ calls' = S.calls
    /\ faults' = S.faults
    /\ globalStore' = S.globalStore
    /\ memCalls' = S.memCalls
    /\ location' = S.location
    /\ extracted' = S.extracted
    /\ hooks' = S.hooks

\* A call of a method of the store. parent is the call that made it (0: a caller).
NewOp(kind, key, value, ttl, category, parent) ==
    [kind |-> kind, key |-> key, value |-> value, ttl |-> ttl,
     category |-> category, parent |-> parent,
     phase |-> "new",       \* init, ready, tx, wait, resolved, rejected
     awaits |-> NoPromise,  \* the init promise the call awaits
     conn |-> NoDb,         \* the connection init() gave it
     opened |-> 0,          \* calls of indexedDB.open it made
     txs |-> 0,             \* transactions it started
     txst |-> "none",       \* its transaction: none, active, done, complete, aborted
     err |-> "none",        \* the engine error it was told of
     result |-> PENDING,    \* what its promise resolved to
     batch |-> <<>>,        \* getMany: the keys asked for; importData: the entries
     keys |-> {},           \* getKeys: the keys; getMany: the keys of the mapping
     data |-> <<>>,         \* exportData: the entries; getMany: the mapping
     rec |-> <<>>,          \* set: the record it built; get: the record it found
     bound |-> 0,           \* cleanExpired: the upper bound of its range
     readAt |-> 0,          \* get: the clock its success handler read
     found |-> "none",      \* get: missing, live, expired
     options |-> <<>>]      \* set by the binding layer: the ttl option it was given

Record(key, value, timestamp, category, expires) ==
    [key |-> key, value |-> value, timestamp |-> timestamp,
     category |-> category, expires |-> expires]

Remove(recs, ks) == [k \in (DOMAIN recs) \ ks |-> recs[k]]

Put(recs, r) == [k \in (DOMAIN recs) \cup {r.key} |-> IF k = r.key THEN r ELSE recs[k]]

\* ---------------------------------------------------------------- init()
\* init() without its second line: a call made while an open is in flight
\* opens the engine again.
initWithoutPromiseGuard(S, o) ==
    IF S.db # NoDb
    THEN [S EXCEPT !.ops = Append(@, [o EXCEPT !.phase = "ready", !.conn = S.db]),
                   !.mq = Append(@, Len(S.ops) + 1)]
    ELSE LET p == S.opens + 1 IN
         [S EXCEPT !.opens = p,
                   !.initPromise = p,
                   !.openReqs = @ \cup {p},
                   !.ops = Append(@, [o EXCEPT !.phase = "init", !.awaits = p,
                                               !.opened = 1])]

\* this.init() called for the new call o: the part before its first await.
init(S, o) ==
    LET i == Len(S.ops) + 1 IN
    IF S.db # NoDb
    THEN [S EXCEPT !.ops = Append(@, [o EXCEPT !.phase = "ready", !.conn = S.db]),
                   !.mq = Append(@, i)]
    ELSE IF S.initPromise # NoPromise
    THEN [S EXCEPT !.ops = Append(@, [o EXCEPT !.phase = "init",
                                               !.awaits = S.initPromise])]
    ELSE LET p == S.opens + 1 IN
         [S EXCEPT !.opens = p,
                   !.initPromise = p,
                   !.openReqs = @ \cup {p},
                   !.ops = Append(@, [o EXCEPT !.phase = "init", !.awaits = p,
                                               !.opened = 1])]

\* The calls that await the init promise p, in the order they were made.
Waiters(S, p) ==
    SelectSeq([i \in 1..Len(S.ops) |-> i],
              LAMBDA i : S.ops[i].phase = "init" /\ S.ops[i].awaits = p)

\* request.onsuccess of the open request p
openOnSuccess(S, p) ==
    [S EXCEPT !.db = p,
              !.initPromise = NoPromise,
              !.openReqs = @ \ {p},
              !.ops = [i \in 1..Len(@) |->
                         IF @[i].phase = "init" /\ @[i].awaits = p
                         THEN [@[i] EXCEPT !.phase = "ready", !.conn = p]
                         ELSE @[i]],
              !.mq = @ \o Waiters(S, p)]

\* An error handler without its first line: the rejected promise stays in
\* this.initPromise.
openOnErrorKeepsPromise(S, p) ==
    [S EXCEPT !.openReqs = @ \ {p},
              !.faults = @ + 1,
              !.ops = [i \in 1..Len(@) |->
                         IF @[i].phase = "init" /\ @[i].awaits = p
                         THEN [@[i] EXCEPT !.phase = "rejected", !.err = "open"]
                         ELSE @[i]]]

\* request.onerror of the open request p
openOnError(S, p) ==
    [S EXCEPT !.initPromise = NoPromise,
              !.openReqs = @ \ {p},
              !.faults = @ + 1,
              !.ops = [i \in 1..Len(@) |->
                         IF @[i].phase = "init" /\ @[i].awaits = p
                         THEN [@[i] EXCEPT !.phase = "rejected", !.err = "open"]
                         ELSE @[i]]]

\* ---------------------------------------------------------------- bodies
\* What a method does once its await this.init() has resolved: it runs as a
\* microtask. StartTx is db.transaction(...) and the request put on it.
StartTx(S, i) ==
    [S EXCEPT !.txq = Append(@, i),
              !.ops[i] = [@ EXCEPT !.phase = "tx", !.txs = @ + 1, !.txst = "active"]]

\* options.category || "default"
CategoryOf(c) == IF c \in {UNDEF, ""} THEN "default" ELSE c

\* options.ttl ? Date.now() + options.ttl : null, Date.now() being t2 by then
ExpiresOf(ttl, t2) == IF ttl # None /\ ttl[1] # 0 THEN Some(t2 + ttl[1]) ELSE None

\* set awaiting the sweep before it writes: the sweep is started first and the
\* write is made in a later microtask.
setBodySweepFirst(S, i, t2) ==
    IF \A c \in 1..Len(S.ops) : S.ops[c].parent # i
    THEN [init(S, NewOp("cleanExpired", NOKEY, NOVAL, None, UNDEF, i))
            EXCEPT !.mq = Append(@, i)]
    ELSE StartTx([S EXCEPT !.now = t2,
                           !.ops[i].rec = Some(Record(S.ops[i].key, S.ops[i].value,
                                S.now, CategoryOf(S.ops[i].category),
                                ExpiresOf(S.ops[i].ttl, t2)))], i)

\* set, after the await: the record is built (timestamp at the clock's value,
\* expires from a second reading t2 of the clock), put on a new transaction, and
\* then cleanExpired() is called and not awaited.
setBody(S, i, t2) ==
    LET o == S.ops[i]
        r == Record(o.key, o.value, S.now, CategoryOf(o.category),
                    ExpiresOf(o.ttl, t2))
        S1 == StartTx([S EXCEPT !.now = t2, !.ops[i].rec = Some(r)], i)
    IN  init(S1, NewOp("cleanExpired", NOKEY, NOVAL, None, UNDEF, i))

getBody(S, i) == StartTx(S, i)

removeBody(S, i) == StartTx(S, i)

\* if (category): a cursor over the category index; else store.clear()
clearBody(S, i) == StartTx(S, i)

getKeysBody(S, i) == StartTx(S, i)

exportDataBody(S, i) == StartTx(S, i)

\* cleanExpired, after the await: IDBKeyRange.upperBound(Date.now())
cleanExpiredBody(S, i) == StartTx([S EXCEPT !.ops[i].bound = S.now], i)

body(S, i, t2) ==
    CASE S.ops[i].kind = "set" -> setBody(S, i, t2)
      [] S.ops[i].kind = "get" -> getBody(S, i)
      [] S.ops[i].kind = "remove" -> removeBody(S, i)
      [] S.ops[i].kind = "clear" -> clearBody(S, i)
      [] S.ops[i].kind = "getKeys" -> getKeysBody(S, i)
      [] S.ops[i].kind = "exportData" -> exportDataBody(S, i)
      [] S.ops[i].kind = "cleanExpired" -> cleanExpiredBody(S, i)

\* db.transaction(...) throws (the connection was closed under the store): the
\* promise executor throws, the promise rejects, nothing after it runs.
bodyThrows(S, i) ==
    [S EXCEPT !.ops[i] = [@ EXCEPT !.phase = "rejected", !.err = "transaction"],
              !.faults = @ + 1]

\* The values the second Date.now() of set can return: the clock may tick
\* between the two readings.
SecondNow(S, i) ==
    IF S.ops[i].kind = "set" /\ S.ops[i].ttl # None /\ S.ops[i].ttl[1] # 0
    THEN {t \in {S.now, S.now + 1} : t <= MaxTime}
    ELSE {S.now}

\* ---------------------------------------------------------------- handlers
\* Each is the engine executing the request and the handler the code installed
\* on it, for the call i whose transaction is the running one.
Resolve(S, i, result) ==
    [S EXCEPT !.ops[i] = [@ EXCEPT !.phase = "resolved", !.result = result,
                                   !.txst = "done",
                                   !.readAt = IF S.ops[i].kind = "get"
                                              THEN S.now ELSE 0]]

\* result.expires && Date.now() > result.expires
Expired(r, t) == r.expires # None /\ r.expires[1] # 0 /\ t > r.expires[1]

\* A put that keeps the expiration of the record it replaces when the new
\* record has none.
setOnSuccessMerging(S, i) ==
    LET r == S.ops[i].rec[1]
        old == S.records[r.key]
        merged == IF r.key \in DOMAIN S.records /\ r.expires = None
                  THEN [r EXCEPT !.expires = old.expires] ELSE r
    IN  Resolve([S EXCEPT !.records = Put(@, merged)], i, VOID)

\* store.put(record); request.onsuccess = () => resolve()
setOnSuccess(S, i) ==
    Resolve([S EXCEPT !.records = Put(@, S.ops[i].rec[1])], i, VOID)

\* get that only reports an expired record as absent and leaves it in the store.
getWithoutEviction(S, i) ==
    LET k == S.ops[i].key IN
    IF k \notin DOMAIN S.records
    THEN Resolve([S EXCEPT !.ops[i].found = "missing"], i, NULL)
    ELSE LET S1 == [S EXCEPT !.ops[i].rec = Some(S.records[k])] IN
         IF Expired(S.records[k], S.now)
         THEN Resolve([S1 EXCEPT !.ops[i].found = "expired"], i, NULL)
         ELSE Resolve([S1 EXCEPT !.ops[i].found = "live"], i, S.records[k].value)

\* store.get(key); request.onsuccess
getOnSuccess(S, i) ==
    LET k == S.ops[i].key IN
    IF k \notin DOMAIN S.records
    THEN Resolve([S EXCEPT !.ops[i].found = "missing"], i, NULL)
    ELSE LET S1 == [S EXCEPT !.ops[i].rec = Some(S.records[k])] IN
         IF Expired(S.records[k], S.now)
         THEN Resolve(init([S1 EXCEPT !.ops[i].found = "expired"],
                           NewOp("remove", k, NOVAL, None, UNDEF, i)), i, NULL)
         ELSE Resolve([S1 EXCEPT !.ops[i].found = "live"], i, S.records[k].value)

\* A delete that fails on a key that is not in the store: the call rejects.
removeStrict(S, i) ==
    IF S.ops[i].key \in DOMAIN S.records
    THEN Resolve([S EXCEPT !.records = Remove(@, {S.ops[i].key})], i, VOID)
    ELSE [S EXCEPT !.ops[i] = [@ EXCEPT !.phase = "rejected", !.err = "request",
                                        !.txst = "aborted"],
                   !.txq = Tail(@)]

\* store.delete(key); request.onsuccess = () => resolve()
removeOnSuccess(S, i) ==
    Resolve([S EXCEPT !.records = Remove(@, {S.ops[i].key})], i, VOID)

\* if (category)
CategoryGiven(c) == c \notin {UNDEF, ""}

\* The records a cursor of the call i ranges over: IDBKeyRange.only(category) on
\* the category index, IDBKeyRange.upperBound(bound) on the expires index (a
\* record whose expires is null has no entry in that index).
InRange(S, i) ==
    IF S.ops[i].kind = "clear"
    THEN {k \in DOMAIN S.records : S.records[k].category = S.ops[i].category}
    ELSE {k \in DOMAIN S.records :
            /\ S.records[k].expires # None
            /\ S.records[k].expires[1] <= S.ops[i].bound}

\* The cursor's position: the first record of the range in index order (the
\* index key, then the primary key).
IndexKey(S, i, k) == IF S.ops[i].kind = "clear" THEN 0 ELSE S.records[k].expires[1]

First(S, i) ==
    CHOOSE k \in InRange(S, i) :
        \A j \in InRange(S, i) :
            \/ IndexKey(S, i, k) < IndexKey(S, i, j)
            \/ IndexKey(S, i, k) = IndexKey(S, i, j) /\ KeyRank[k] <= KeyRank[j]

\* request.onsuccess of openCursor, of clear(category) and of cleanExpired:
\* cursor.delete(); cursor.continue(), and resolve() at the end of the range.
cursorOnSuccess(S, i) ==
    IF InRange(S, i) # {}
    THEN [S EXCEPT !.records = Remove(@, {First(S, i)})]
    ELSE Resolve(S, i, VOID)

\* clear: the cursor when a category is given, store.clear() otherwise
clearOnSuccess(S, i) ==
    IF CategoryGiven(S.ops[i].category)
    THEN cursorOnSuccess(S, i)
    ELSE Resolve([S EXCEPT !.records = Remove(@, DOMAIN @)], i, VOID)

\* store.getAllKeys(); request.onsuccess = () => resolve(request.result)
getKeysOnSuccess(S, i) ==
    Resolve([S EXCEPT !.ops[i].keys = DOMAIN S.records], i, VOID)

\* The keys ks in primary-key order, as getAll() returns the records.
RECURSIVE InKeyOrder(_)
InKeyOrder(ks) ==
    IF ks = {} THEN <<>>
    ELSE LET k == CHOOSE x \in ks : \A y \in ks : KeyRank[x] <= KeyRank[y]
         IN  <<k>> \o InKeyOrder(ks \ {k})

\* .filter((record) => !record.expires || Date.now() <= record.expires)
Live(r, t) == r.expires = None \/ r.expires[1] = 0 \/ t <= r.expires[1]

\* .map((record) => ({key, value, category, ttl: record.expires ? record.expires
\* - Date.now() : null}))
Entry(r, t) ==
    [key |-> r.key, value |-> r.value, category |-> r.category,
     ttl |-> IF r.expires # None /\ r.expires[1] # 0
             THEN Some(r.expires[1] - t) ELSE None]

\* JSON.stringify of the entries and JSON.parse of that text: on entries of
\* strings, numbers and null each field comes back as it went in.
JSONstringify(entries) ==
    [n \in 1..Len(entries) |->
        <<entries[n].key, entries[n].value, entries[n].category, entries[n].ttl>>]

JSONparse(text) ==
    [n \in 1..Len(text) |->
        [key |-> text[n][1], value |-> text[n][2], category |-> text[n][3],
         ttl |-> text[n][4]]]

\* The values the Date.now() of exportData's map can return when the filter
\* read S.now: the clock may tick between the two passes over the records. It
\* matters only when a record the filter keeps has an expiration.
MapNow(S, i) ==
    IF /\ S.ops[i].kind = "exportData"
       /\ \E k \in DOMAIN S.records :
             /\ S.records[k].expires # None
             /\ Live(S.records[k], S.now)
    THEN {t \in {S.now, S.now + 1} : t <= MaxTime}
    ELSE {S.now}

\* store.getAll(); request.onsuccess: the filter reads the clock as S.now, the
\* map after it as t2.
exportDataOnSuccess(S, i, t2) ==
    LET all == InKeyOrder(DOMAIN S.records)
        live == SelectSeq(all, LAMBDA k : Live(S.records[k], S.now))
        entries == [n \in 1..Len(live) |-> Entry(S.records[live[n]], t2)]
    IN  [Resolve([S EXCEPT !.ops[i].data = JSONstringify(entries)], i, VOID)
            EXCEPT !.now = t2]

onSuccess(S, i, t2) ==
    CASE S.ops[i].kind = "set" -> setOnSuccess(S, i)
      [] S.ops[i].kind = "get" -> getOnSuccess(S, i)
      [] S.ops[i].kind = "remove" -> removeOnSuccess(S, i)
      [] S.ops[i].kind = "clear" -> clearOnSuccess(S, i)
      [] S.ops[i].kind = "getKeys" -> getKeysOnSuccess(S, i)
      [] S.ops[i].kind = "exportData" -> exportDataOnSuccess(S, i, t2)
      [] S.ops[i].kind = "cleanExpired" -> cursorOnSuccess(S, i)

\* A handler that tries again instead of rejecting: the call goes back to the
\* microtask queue and will start a second transaction.
onErrorRetries(S, i) ==
    [S EXCEPT !.ops[i] = [@ EXCEPT !.phase = "ready", !.err = "request",
                                   !.txst = "aborted"],
              !.mq = Append(@, i),
              !.records = S.committed,
              !.txq = Tail(@),
              !.faults = @ + 1]

\* request.onerror = () => reject(request.error). The failed request aborts its
\* transaction: the engine rolls the store back and drops the transaction. A
\* failed cursor.delete() has no handler of its own; the abort it causes fails
\* the pending cursor.continue(), whose handler is this one.
onError(S, i) ==
    [S EXCEPT !.ops[i] = [@ EXCEPT !.phase = "rejected", !.err = "request",
                                   !.txst = "aborted"],
              !.records = S.committed,
              !.txq = Tail(@),
              !.faults = @ + 1]

\* The engine commits the transaction of the call i.
commit(S, i) ==
    [S EXCEPT !.ops[i].txst = "complete", !.committed = S.records, !.txq = Tail(@)]

\* The engine fails to commit it: the transaction aborts after its requests
\* succeeded, and what it wrote is rolled back. No handler of the code runs.
commitAbort(S, i) ==
    [S EXCEPT !.ops[i].txst = "aborted", !.records = S.committed, !.txq = Tail(@),
              !.faults = @ + 1]

ReadWrite(kind) == kind \in {"set", "remove", "clear", "cleanExpired"}

\* ---------------------------------------------------------------- batches
\* getMany and importData call get / set once per element, synchronously and in
\* order, and await Promise.all of the promises.
Children(S, i) == {j \in 1..Len(S.ops) : S.ops[j].parent = i}

RECURSIVE getEach(_, _, _)
getEach(S, i, keys) ==
    IF keys = <<>> THEN S
    ELSE getEach(init(S, NewOp("get", Head(keys), NOVAL, None, UNDEF, i)), i,
                 Tail(keys))

\* ttl: item.ttl || undefined
TtlOf(item) == IF item.ttl = None \/ item.ttl[1] = 0 THEN None ELSE item.ttl

RECURSIVE setEach(_, _, _)
setEach(S, i, items) ==
    IF items = <<>> THEN S
    ELSE setEach(init(S, NewOp("set", Head(items).key, Head(items).value,
                               TtlOf(Head(items)), Head(items).category, i)),
                 i, Tail(items))

Batch(kind, batch) ==
    [NewOp(kind, NOKEY, NOVAL, None, UNDEF, 0) EXCEPT !.phase = "wait",
                                                      !.batch = batch]

getMany(S, keys) ==
    getEach([S EXCEPT !.ops = Append(@, Batch("getMany", keys))],
            Len(S.ops) + 1, keys)

importData(S, jsonData) ==
    setEach([S EXCEPT !.ops = Append(@, Batch("importData", jsonData))],
            Len(S.ops) + 1, JSONparse(jsonData))

\* The mapping getMany builds: results[key] = value for every value !== null.
Results(S, i) ==
    LET got == {j \in Children(S, i) : S.ops[j].result # NULL}
        ks == {S.ops[j].key : j \in got}
    IN  [k \in ks |-> S.ops[CHOOSE j \in got : S.ops[j].key = k].result]

\* Promise.allSettled in the place of Promise.all: the batch waits for every
\* promise and resolves whatever became of them.
promiseAllSettled(S, i) ==
    IF S.ops[i].phase # "wait" THEN S.ops[i]
    ELSE IF \A j \in Children(S, i) : S.ops[j].phase \in {"resolved", "rejected"}
    THEN [S.ops[i] EXCEPT !.phase = "resolved", !.result = VOID,
            !.keys = IF @ = {} /\ S.ops[i].kind = "getMany"
                     THEN DOMAIN Results(S, i) ELSE @,
            !.data = IF S.ops[i].kind = "getMany" THEN Results(S, i) ELSE @]
    ELSE S.ops[i]

\* await Promise.all(promises): rejects as soon as one promise has rejected,
\* resolves when all have resolved.
promiseAll(S, i) ==
    IF S.ops[i].phase # "wait" THEN S.ops[i]
    ELSE IF \E j \in Children(S, i) : S.ops[j].phase = "rejected"
    THEN [S.ops[i] EXCEPT !.phase = "rejected",
            !.err = S.ops[CHOOSE j \in Children(S, i) :
                            S.ops[j].phase = "rejected"].err]
    ELSE IF \A j \in Children(S, i) : S.ops[j].phase = "resolved"
    THEN [S.ops[i] EXCEPT !.phase = "resolved", !.result = VOID,
            !.keys = IF @ = {} /\ S.ops[i].kind = "getMany"
                     THEN DOMAIN Results(S, i) ELSE @,
            !.data = IF S.ops[i].kind = "getMany" THEN Results(S, i) ELSE @]
    ELSE S.ops[i]

\* set without the catch, its promise following the sweep's: a sweep that
\* rejects rejects the set that started it.
sweepUncaught(S) ==
    [S EXCEPT !.ops = [i \in 1..Len(@) |->
        IF /\ @[i].kind = "set"
           /\ \E c \in 1..Len(@) : /\ @[c].parent = i
                                    /\ @[c].kind = "cleanExpired"
                                    /\ @[c].phase = "rejected"
        THEN [@[i] EXCEPT !.phase = "rejected"]
        ELSE @[i]]]

\* this.cleanExpired().catch(() => {}): the handler set has on the promise of
\* its sweep does nothing.
sweepCatch(S) == S

\* ---------------------------------------------------------------- memory table
\* const globalStore: Record<string, any> = {}: a plain object, so that a read
\* of a name it does not own finds what Object.prototype defines under it.
Inherited == {"constructor", "toString"}

\* What such a read returns: a function.
FUNCTION == "function"

\* globalStore[key] = value
assign(G, key, value) ==
    [k \in (DOMAIN G) \cup {key} |-> IF k = key THEN value ELSE G[k]]

\* globalStore[key]
getMemory(G, key) ==
    IF key \in DOMAIN G THEN G[key]
    ELSE IF key \in Inherited THEN FUNCTION
    ELSE UNDEF

\* globalStore[key] = value, by a caller or by the binding layer
setMemory(S, key, value) ==
    [S EXCEPT !.globalStore = assign(@, key, value),
              !.memCalls = Append(@, [op |-> "set", key |-> key, value |-> value])]

\* if (key) delete globalStore[key]; else every own key is deleted
clearMemory(S, key) ==
    [S EXCEPT !.globalStore = IF key \notin {UNDEF, ""}
                              THEN [k \in (DOMAIN @) \ {key} |-> @[k]]
                              ELSE <<>>,
              !.memCalls = Append(@, [op |-> "clear", key |-> key, value |-> UNDEF])]

\* ---------------------------------------------------------------- TTL resolver
\* A string is the sequence of its characters. An options.ttl is undefined, a
\* number or a string.
NoTTL == [type |-> "undefined", n |-> 0, s |-> <<>>]
Num(n) == [type |-> "number", n |-> n, s |-> <<>>]
Str(s) == [type |-> "string", n |-> 0, s |-> s]

\* ttlPresets.ts: the named presets, in milliseconds (forever is 0; short,
\* medium and long are getters of other entries). The presets of a month and
\* more ("1month", "3months", "6months", veryLong) are not among the inputs:
\* their milliseconds exceed the integers the checker computes with.
PresetNames ==
    {<<"5","m","i","n">>, <<"1","5","m","i","n">>, <<"3","0","m","i","n">>,
     <<"1","h","o","u","r">>, <<"2","h","o","u","r","s">>,
     <<"6","h","o","u","r","s">>, <<"1","2","h","o","u","r","s">>,
     <<"1","d","a","y">>, <<"2","d","a","y","s">>, <<"3","d","a","y","s">>,
     <<"1","w","e","e","k">>, <<"2","w","e","e","k","s">>,
     <<"s","e","s","s","i","o","n">>, <<"f","o","r","e","v","e","r">>,
     <<"s","h","o","r","t">>, <<"m","e","d","i","u","m">>, <<"l","o","n","g">>}

TTL(name) ==
    CASE name = <<"5","m","i","n">> -> 5 * 60 * 1000
      [] name = <<"1","5","m","i","n">> -> 15 * 60 * 1000
      [] name = <<"3","0","m","i","n">> -> 30 * 60 * 1000
      [] name = <<"1","h","o","u","r">> -> 60 * 60 * 1000
      [] name = <<"2","h","o","u","r","s">> -> 2 * 60 * 60 * 1000
      [] name = <<"6","h","o","u","r","s">> -> 6 * 60 * 60 * 1000
      [] name = <<"1","2","h","o","u","r","s">> -> 12 * 60 * 60 * 1000
      [] name = <<"1","d","a","y">> -> 24 * 60 * 60 * 1000
      [] name = <<"2","d","a","y","s">> -> 2 * 24 * 60 * 60 * 1000
      [] name = <<"3","d","a","y","s">> -> 3 * 24 * 60 * 60 * 1000
      [] name = <<"1","w","e","e","k">> -> 7 * 24 * 60 * 60 * 1000
      [] name = <<"2","w","e","e","k","s">> -> 14 * 24 * 60 * 60 * 1000
      [] name = <<"s","e","s","s","i","o","n">> -> 24 * 60 * 60 * 1000
      [] name = <<"f","o","r","e","v","e","r">> -> 0
      [] name = <<"s","h","o","r","t">> -> 30 * 60 * 1000
      [] name = <<"m","e","d","i","u","m">> -> 24 * 60 * 60 * 1000
      [] name = <<"l","o","n","g">> -> 7 * 24 * 60 * 60 * 1000

Digit ==
    ("0" :> 0) @@ ("1" :> 1) @@ ("2" :> 2) @@ ("3" :> 3) @@ ("4" :> 4) @@
    ("5" :> 5) @@ ("6" :> 6) @@ ("7" :> 7) @@ ("8" :> 8) @@ ("9" :> 9)

\* \s
WhiteSpace == {" ", "\t", "\n"}

UpperCase ==
    <<"A","B","C","D","E","F","G","H","I","J","K","L","M",
      "N","O","P","Q","R","S","T","U","V","W","X","Y","Z">>

LowerCase ==
    <<"a","b","c","d","e","f","g","h","i","j","k","l","m",
      "n","o","p","q","r","s","t","u","v","w","x","y","z">>

toLowerCase(s) ==
    [i \in 1..Len(s) |->
        IF \E j \in 1..26 : UpperCase[j] = s[i]
        THEN LowerCase[CHOOSE j \in 1..26 : UpperCase[j] = s[i]]
        ELSE s[i]]

\* The length of the longest prefix of s whose characters are all in cs.
Span(s, cs) ==
    CHOOSE n \in 0..Len(s) :
        /\ \A i \in 1..n : s[i] \in cs
        /\ (n < Len(s) => s[n + 1] \notin cs)

\* The number a sequence of digits writes in base 10.
RECURSIVE Decimal(_)
Decimal(ds) ==
    IF ds = <<>> THEN 0
    ELSE 10 * Decimal(SubSeq(ds, 1, Len(ds) - 1)) + Digit[ds[Len(ds)]]

Units ==
    {<<"m","i","n","u","t","e">>, <<"h","o","u","r">>, <<"d","a","y">>,
     <<"w","e","e","k">>, <<"m","o","n","t","h">>, <<"y","e","a","r">>}

multipliers(unit) ==
    CASE unit = <<"m","i","n","u","t","e">> -> 60 * 1000
      [] unit = <<"h","o","u","r">> -> 60 * 60 * 1000
      [] unit = <<"d","a","y">> -> 24 * 60 * 60 * 1000
      [] unit = <<"w","e","e","k">> -> 7 * 24 * 60 * 60 * 1000
      [] unit = <<"m","o","n","t","h">> -> 30 * 24 * 60 * 60 * 1000
      [] unit = <<"y","e","a","r">> -> 365 * 24 * 60 * 60 * 1000

\* ttl.match(/^(\d+)\s*(minute|hour|day|week|month|year)s?$/i): no match, or
\* the two groups. The digits and the white space are taken greedily; nothing
\* after them can match a character given back.
match(s) ==
    LET d == Span(s, DOMAIN Digit)
        r1 == SubSeq(s, d + 1, Len(s))
        w == Span(r1, WhiteSpace)
        r2 == toLowerCase(SubSeq(r1, w + 1, Len(r1)))
        unit == IF r2 \in Units THEN Some(r2)
                ELSE IF /\ r2 # <<>>
                        /\ r2[Len(r2)] = "s"
                        /\ SubSeq(r2, 1, Len(r2) - 1) \in Units
                THEN Some(SubSeq(r2, 1, Len(r2) - 1))
                ELSE None
    IN  IF d >= 1 /\ unit # None THEN Some(<<SubSeq(s, 1, d), unit[1]>>) ELSE None

\* parseInt(s): leading white space and a sign are skipped, the digits that
\* follow are read and whatever comes after them is ignored; NaN (here None)
\* when no digit follows.
parseInt(s) ==
    LET r1 == SubSeq(s, Span(s, WhiteSpace) + 1, Len(s))
        sign == IF r1 # <<>> /\ r1[1] \in {"+", "-"} THEN 1 ELSE 0
        r2 == SubSeq(r1, sign + 1, Len(r1))
        d == Span(r2, DOMAIN Digit)
        n == Decimal(SubSeq(r2, 1, d))
    IN  IF d = 0 THEN None
        ELSE IF sign = 1 /\ r1[1] = "-" THEN Some(0 - n) ELSE Some(n)

\* createStore.ts parseTTL: undefined (None) or the milliseconds
parseTTL(ttl) ==
    IF ttl.type = "undefined" THEN None
    ELSE IF ttl.type = "string" /\ ttl.s \in PresetNames THEN Some(TTL(ttl.s))
    ELSE IF ttl.type = "number" THEN Some(ttl.n)
    ELSE LET m == match(ttl.s) IN
         IF m # None THEN Some(Decimal(m[1][1]) * multipliers(m[1][2]))
         ELSE LET simpleNumber == parseInt(ttl.s) IN
              IF simpleNumber # None THEN Some(simpleNumber[1] * 60 * 1000)
              ELSE None

\* ---------------------------------------------------------------- binding layer
\* A binding layer that, with persist: 'indexedDB', leaves the Memory Table to
\* be written when the store's write has succeeded.
setSharedDataStoreFirst(S, key, value, persist, ttl, category) ==
    IF persist = "indexedDB"
    THEN init(S, [NewOp("set", key, value, parseTTL(ttl), category, 0)
                     EXCEPT !.options = Some(ttl)])
    ELSE setMemory(S, key, value)

\* setSharedData(key, value, options): the Memory Table is written, and with
\* persist: 'indexedDB' the store's set is called with the resolved ttl; its
\* promise has a catch that only logs.
setSharedData(S, key, value, persist, ttl, category) ==
    LET S1 == setMemory(S, key, value) IN
    IF persist = "indexedDB"
    THEN init(S1, [NewOp("set", key, value, parseTTL(ttl), category, 0)
                      EXCEPT !.options = Some(ttl)])
    ELSE S1

\* ---------------------------------------------------------------- URL transfer
\* window.location, as far as the code reads and writes it: the value of the
\* parameter __ndata (None when the query has none) and whether the query has
\* other parameters. window is FALSE where there is none (on the server).
Location(ndata, rest) == [window |-> TRUE, ndata |-> ndata, rest |-> rest]

\* The strings the codec builds, by the function that built each.
stringify(data) == [by |-> "JSON.stringify", of |-> Some(data), len |-> 1]
encodeURIComponent(str) == [by |-> "encodeURIComponent", of |-> Some(str), len |-> 1]
btoa(str) == [by |-> "btoa", of |-> Some(str), len |-> 1]

\* A string no function of the codec built, of the given length (the strings
\* the codec builds are not empty).
Raw(len) == [by |-> "raw", of |-> <<>>, len |-> len]

\* The inverses throw (None) on a string the function did not build.
atob(str) == IF str.by = "btoa" THEN str.of ELSE None
decodeURIComponent(str) == IF str.by = "encodeURIComponent" THEN str.of ELSE None
parse(str) == IF str.by = "JSON.stringify" THEN str.of ELSE None

\* if (encodedData): a string is truthy unless it is empty
NonEmpty(str) == str.len > 0

\* URLTransfer.encode, for data JSON can write
encode(data) == btoa(encodeURIComponent(stringify(data)))

\* URLTransfer.decode: the data, or null (None) when a step throws
decode(encoded) ==
    LET a == atob(encoded) IN
    IF a = None THEN None
    ELSE LET u == decodeURIComponent(a[1]) IN
         IF u = None THEN None ELSE parse(u[1])

\* URLTransfer.createTransferURL(path, data), as the location a page opened
\* with that URL has: the token is appended to the path's query (with "&" when
\* the path has one, rest, and with "?" otherwise). encode(data) is not empty
\* for data JSON can write, so the path is never returned as it is.
createTransferURL(rest, data) == Location(Some(encode(data)), rest)

\* extractFromURL that returns the data and leaves the location as it is.
extractKeepsURL(S) ==
    IF /\ S.location.window
       /\ S.location.ndata # None
       /\ NonEmpty(S.location.ndata[1])
    THEN [S EXCEPT !.extracted = Append(@, [seen |-> S.location,
                                   result |-> decode(S.location.ndata[1])])]
    ELSE [S EXCEPT !.extracted = Append(@, [seen |-> S.location, result |-> None])]

\* URLTransfer.extractFromURL: what it returns is the result of the last entry
\* of extracted. replaceState(pathname + hash) drops the whole query.
extractFromURL(S) ==
    IF /\ S.location.window
       /\ S.location.ndata # None
       /\ NonEmpty(S.location.ndata[1])
    THEN [S EXCEPT !.location = Location(None, FALSE),
                   !.extracted = Append(@, [seen |-> S.location,
                                   result |-> decode(S.location.ndata[1])])]
    ELSE [S EXCEPT !.extracted = Append(@, [seen |-> S.location, result |-> None])]

\* ---------------------------------------------------------------- useSharedData
\* An initializer that reads the Memory Table before the URL.
initialStateMemoryFirst(S, urlData, key, initialValue) ==
    IF getMemory(S.globalStore, key) # UNDEF
    THEN getMemory(S.globalStore, key)
    ELSE IF urlData # None /\ key \in DOMAIN urlData[1]
    THEN urlData[1][key]
    ELSE initialValue

\* The initializer of useState: the URL payload's entry for the key, else the
\* Memory Table's value, else initialValue. S is the state after the call of
\* extractFromURL (made only where there is a window).
initialState(S, urlData, key, initialValue) ==
    IF urlData # None /\ key \in DOMAIN urlData[1]
    THEN urlData[1][key]
    ELSE IF getMemory(S.globalStore, key) # UNDEF
    THEN getMemory(S.globalStore, key)
    ELSE initialValue

\* The first render of useSharedData(key, initialValue, options).
render(S, key, initialValue, persist, ttl, category) ==
    LET S1 == IF S.location.window THEN extractFromURL(S) ELSE S
        urlData == IF S.location.window
                   THEN S1.extracted[Len(S1.extracted)].result ELSE None
    IN  [S1 EXCEPT !.hooks = Append(@,
            [key |-> key, initialValue |-> initialValue, persist |-> persist,
             ttl |-> ttl, category |-> category,
             value |-> initialState(S1, urlData, key, initialValue),
             phase |-> "rendered",  \* mounted once its effects have run
             load |-> 0,            \* the get of its first effect
             loaded |-> FALSE,      \* the code after that get's await has run
             stale |-> FALSE])]     \* a new value awaits its render

\* The second effect: the value goes to the Memory Table and, with persist:
\* 'indexedDB', to the store.
persistValue(S, h) ==
    LET k == S.hooks[h] IN
    IF k.value = UNDEF THEN S
    ELSE setSharedData(S, k.key, k.value, k.persist, k.ttl, k.category)

\* The two effects in the other order: the value is written before the store
\* is read.
effectsWriteFirst(S, h) ==
    LET k == S.hooks[h]
        S1 == persistValue([S EXCEPT !.hooks[h].phase = "mounted"], h)
    IN  IF k.persist = "indexedDB"
        THEN [init(S1, NewOp("get", k.key, NOVAL, None, UNDEF, 0))
                EXCEPT !.hooks[h].load = Len(S1.ops) + 1]
        ELSE S1

\* The effects after the first render, in order: loadFromIndexedDB() is
\* called, up to its await of get, then the second effect runs.
effects(S, h) ==
    LET k == S.hooks[h]
        S1 == IF k.persist = "indexedDB"
              THEN [init(S, NewOp("get", k.key, NOVAL, None, UNDEF, 0))
                      EXCEPT !.hooks[h].load = Len(S.ops) + 1]
              ELSE S
    IN  persistValue([S1 EXCEPT !.hooks[h].phase = "mounted"], h)

\* The render after setValue: the second effect runs again for the new value.
rerender(S, h) == persistValue([S EXCEPT !.hooks[h].stale = FALSE], h)

\* loadFromIndexedDB after its await, for the hook h whose get has settled: a
\* value that is not null becomes the hook's value and the Memory Table's; a
\* rejection is caught and logged.
loadedOne(S, h) ==
    LET k == S.hooks[h]
        o == S.ops[k.load]
    IN  IF o.phase = "resolved" /\ o.result # NULL
        THEN [setMemory(S, k.key, o.result)
                EXCEPT !.hooks[h] = [@ EXCEPT !.loaded = TRUE,
                                               !.value = o.result,
                                               !.stale = (@ \/ k.value # o.result)]]
        ELSE [S EXCEPT !.hooks[h].loaded = TRUE]

RECURSIVE loadedFrom(_, _)
loadedFrom(S, h) ==
    IF h > Len(S.hooks) THEN S
    ELSE IF /\ S.hooks[h].load # 0
            /\ ~S.hooks[h].loaded
            /\ S.ops[S.hooks[h].load].phase \in {"resolved", "rejected"}
    THEN loadedFrom(loadedOne(S, h), h + 1)
    ELSE loadedFrom(S, h + 1)

loadFromIndexedDB(S) == loadedFrom(S, 1)

\* The promises that settle as a consequence of what just settled.
Settle(S) ==
    loadFromIndexedDB(
        sweepCatch([S EXCEPT !.ops = [i \in 1..Len(@) |-> promiseAll(S, i)]]))

\* ---------------------------------------------------------------- actions
Init ==
    /\ now = 2
    /\ db = NoDb
    /\ initPromise = NoPromise
    /\ openReqs = {}
    /\ opens = 0
    /\ ops = <<>>
    /\ mq = <<>>
    /\ txq = <<>>
    /\ records = <<>>
    /\ committed = <<>>
    /\ calls = 0
    /\ faults = 0
    /\ globalStore = <<>>
    /\ memCalls = <<>>
    /\ location = Location(None, FALSE)
    /\ extracted = <<>>
    /\ hooks = <<>>

Call(o, max) ==
    /\ calls < max
    /\ Apply(init([Cur EXCEPT !.calls = @ + 1], o))

\* The calls a caller can make.
Set(k, v, t, c) == NewOp("set", k, v, t, c, 0)
Get(k) == NewOp("get", k, NOVAL, None, UNDEF, 0)
RemoveKey(k) == NewOp("remove", k, NOVAL, None, UNDEF, 0)
Clear(c) == NewOp("clear", NOKEY, NOVAL, None, c, 0)
GetKeys == NewOp("getKeys", NOKEY, NOVAL, None, UNDEF, 0)
ExportData == NewOp("exportData", NOKEY, NOVAL, None, UNDEF, 0)

CallGetMany(keys, max) ==
    /\ calls < max
    /\ Apply(getMany([Cur EXCEPT !.calls = @ + 1], keys))

\* importData(await exportData()): the text is one an exportData has resolved to.
CallImportData(max) ==
    /\ calls < max
    /\ \E e \in 1..Len(ops) :
          /\ ops[e].kind = "exportData"
          /\ ops[e].phase = "resolved"
          /\ Apply(importData([Cur EXCEPT !.calls = @ + 1], ops[e].data))

\* A caller calls setMemory(key, value) / clearMemory(key) / clearMemory().
CallSetMemory(key, value) ==
    /\ Len(memCalls) < MaxMemCalls
    /\ Apply(setMemory(Cur, key, value))

CallClearMemory(key) ==
    /\ Len(memCalls) < MaxMemCalls
    /\ Apply(clearMemory(Cur, key))

\* A caller calls setSharedData(key, value, {persist, ttl, category}).
CallSetSharedData(key, value, persist, ttl, category, max) ==
    /\ calls < max
    /\ Apply(setSharedData([Cur EXCEPT !.calls = @ + 1], key, value, persist, ttl,
                           category))

\* A caller calls URLTransfer.extractFromURL().
CallExtract(max) ==
    /\ calls < max
    /\ Apply(extractFromURL([Cur EXCEPT !.calls = @ + 1]))

\* A component that calls useSharedData(key, initialValue, options) renders for
\* the first time.
Mount(key, initialValue, persist, ttl, category, max) ==
    /\ calls < max
    /\ Apply(render([Cur EXCEPT !.calls = @ + 1], key, initialValue, persist, ttl,
                    category))

\* React runs the effects of a hook that has rendered.
Effects ==
    /\ mq = <<>>
    /\ \E h \in 1..Len(hooks) :
          /\ hooks[h].phase = "rendered"
          /\ Apply(effects(Cur, h))

\* React renders a hook whose value was set, and runs the effect that depends
\* on the value.
Rerender ==
    /\ mq = <<>>
    /\ \E h \in 1..Len(hooks) :
          /\ hooks[h].phase = "mounted"
          /\ hooks[h].stale
          /\ Apply(rerender(Cur, h))

Tick ==
    /\ mq = <<>>
    /\ now < MaxTime
    /\ now' = now + 1
    /\ UNCHANGED <<db, initPromise, openReqs, opens, ops, mq, txq, records,
                   committed, calls, faults, globalStore, memCalls, location,
                   extracted, hooks>>

Microtask ==
    /\ mq # <<>>
    /\ LET S == [Cur EXCEPT !.mq = Tail(@)] IN
       \E t2 \in SecondNow(S, Head(mq)) : Apply(body(S, Head(mq), t2))

MicrotaskThrows ==
    /\ mq # <<>>
    /\ faults < MaxFaults
    /\ Apply(Settle(bodyThrows([Cur EXCEPT !.mq = Tail(@)], Head(mq))))

OpenSuccess ==
    /\ mq = <<>>
    /\ \E p \in openReqs : Apply(openOnSuccess(Cur, p))

OpenError ==
    /\ mq = <<>>
    /\ faults < MaxFaults
    /\ \E p \in openReqs : Apply(Settle(openOnError(Cur, p)))

Running == mq = <<>> /\ txq # <<>>

RequestSuccess ==
    /\ Running
    /\ ops[Head(txq)].txst = "active"
    /\ \E t2 \in MapNow(Cur, Head(txq)) :
          Apply(Settle(onSuccess(Cur, Head(txq), t2)))

RequestError ==
    /\ Running
    /\ ops[Head(txq)].txst = "active"
    /\ faults < MaxFaults
    /\ Apply(Settle(onError(Cur, Head(txq))))

Commit ==
    /\ Running
    /\ ops[Head(txq)].txst = "done"
    /\ Apply(commit(Cur, Head(txq)))

CommitAbort ==
    /\ Running
    /\ ops[Head(txq)].txst = "done"
    /\ ReadWrite(ops[Head(txq)].kind)
    /\ faults < MaxFaults
    /\ Apply(commitAbort(Cur, Head(txq)))

System ==
    \/ Microtask
    \/ OpenSuccess
    \/ RequestSuccess
    \/ Commit

Fault ==
    \/ MicrotaskThrows
    \/ OpenError
    \/ RequestError
    \/ CommitAbort

\* Every method, records without expiry, engine faults.
Menu ==
    {Set("a", "v1", None, "A"), Set("b", "v2", None, UNDEF), Get("a"),
     RemoveKey("a"), Clear(UNDEF), Clear(""), Clear("A"), GetKeys}

Next ==
    \/ \E o \in Menu : Call(o, MaxCalls)
    \/ System
    \/ Fault

Spec == Init /\ [][Next]_vars

\* Expiry: one key written with a time to live and read as the clock advances,
\* engine faults.
MenuTTL == {Set("a", "v1", Some(1), UNDEF), Get("a")}

NextTTL ==
    \/ \E o \in MenuTTL : Call(o, MaxCalls)
    \/ Tick
    \/ System
    \/ Fault

SpecTTL == Init /\ [][NextTTL]_vars
\* getMany over both keys, engine faults.
MenuMany == {Set("a", "v1", None, UNDEF), Set("b", "v2", None, "A")}

NextMany ==
    \/ \E o \in MenuMany : Call(o, MaxCalls)
    \/ CallGetMany(<<"a", "b">>, MaxCalls)
    \/ System
    \/ Fault

SpecMany == Init /\ [][NextMany]_vars

\* Export and import of a store whose record expires.
MenuPort == {Set("a", "v1", Some(1), "A"), ExportData}

NextPort ==
    \/ \E o \in MenuPort : Call(o, MaxPortCalls)
    \/ CallImportData(MaxPortCalls)
    \/ Tick
    \/ System

SpecPort == Init /\ [][NextPort]_vars

\* The Memory Table alone: ordinary keys, the empty string and a name every
\* object inherits.
MemKeys == {"a", "b", "", "constructor"}

MemVals == {"v1", "v2"}

NextMemory ==
    \/ \E k \in MemKeys : \E v \in MemVals : CallSetMemory(k, v)
    \/ \E k \in MemKeys \cup {UNDEF} : CallClearMemory(k)

SpecMemory == Init /\ [][NextMemory]_vars

\* Writes through the binding layer with the forms of ttl it takes: numbers,
\* presets, durations, bare integers and strings that are none of these.
TTLOptions ==
    {NoTTL, Num(60), Num(3600000),
     Str(<<"3","0","m","i","n">>),
     Str(<<"2"," ","h","o","u","r","s">>),
     Str(<<"3"," ","D","a","y","s">>),
     Str(<<"9","0","m","i","n","u","t","e">>),
     Str(<<"4","5">>),
     Str(<<"b","o","g","u","s">>),
     Str(<<"1","0"," ","s","e","c","o","n","d","s">>),
     Str(<<"1",".","5"," ","h","o","u","r","s">>)}

NextResolve ==
    \/ \E t \in TTLOptions :
          CallSetSharedData("a", "v1", "indexedDB", t, UNDEF, MaxCalls)
    \/ CallSetSharedData("b", "v2", "memory", NoTTL, UNDEF, MaxCalls)
    \/ System

SpecResolve == Init /\ [][NextResolve]_vars

\* The locations a page is loaded with: no parameter, a token createTransferURL
\* made, a token that does not decode, the parameter with an empty value, and
\* no window at all.
Locations ==
    {Location(None, TRUE),
     Location(Some(encode("a" :> "u1")), TRUE),
     Location(Some(Raw(3)), FALSE),
     Location(Some(Raw(0)), FALSE),
     [window |-> FALSE, ndata |-> None, rest |-> FALSE]}

\* The engine keeps the records across page loads: a store constructed over the
\* records an earlier session wrote (at time 1, "a" with an expiration and a
\* category, "b" with neither).
StoredRecords ==
    ("a" :> Record("a", "v0", 1, "A", Some(3))) @@
    ("b" :> Record("b", "v2", 1, "default", None))

InitStored ==
    /\ now = 2
    /\ db = NoDb
    /\ initPromise = NoPromise
    /\ openReqs = {}
    /\ opens = 0
    /\ ops = <<>>
    /\ mq = <<>>
    /\ txq = <<>>
    /\ records = StoredRecords
    /\ committed = StoredRecords
    /\ calls = 0
    /\ faults = 0
    /\ globalStore = <<>>
    /\ memCalls = <<>>
    /\ location = Location(None, FALSE)
    /\ extracted = <<>>
    /\ hooks = <<>>

\* A page is loaded: the location is one of locs, the engine holds recs.
PageLoad(locs, recs) ==
    /\ now = 2
    /\ db = NoDb
    /\ initPromise = NoPromise
    /\ openReqs = {}
    /\ opens = 0
    /\ ops = <<>>
    /\ mq = <<>>
    /\ txq = <<>>
    /\ records = recs
    /\ committed = recs
    /\ calls = 0
    /\ faults = 0
    /\ globalStore = <<>>
    /\ memCalls = <<>>
    /\ location \in locs
    /\ extracted = <<>>
    /\ hooks = <<>>

\* Extraction from each of the locations, by direct calls and by the first
\* render of hooks that do not persist; the Memory Table may have been written
\* before.
InitURL == PageLoad(Locations, <<>>)

NextURL ==
    \/ CallSetSharedData("a", "m1", "memory", NoTTL, UNDEF, MaxCalls)
    \/ \E i \in {UNDEF, "i1"} : Mount("a", i, "memory", NoTTL, UNDEF, MaxCalls)
    \/ CallExtract(MaxCalls)
    \/ Effects

SpecURL == InitURL /\ [][NextURL]_vars

\* Hooks on the key "a" over a store that holds a live record of it, on a page
\* loaded with or without a token: the Memory Table may have been written
\* before the hooks mount, hooks mount with and without an initial value, one
\* of them at most with persist: 'indexedDB'; the engine may fail.
InitHook == PageLoad({Location(None, TRUE), Location(Some(encode("a" :> "u1")), TRUE)},
                     StoredRecords)

NextHook ==
    \/ /\ hooks = <<>>
       /\ CallSetSharedData("a", "m1", "memory", NoTTL, UNDEF, MaxCalls)
    \/ \E i \in {UNDEF, "i1"} : Mount("a", i, "memory", NoTTL, UNDEF, MaxCalls)
    \/ /\ \A h \in 1..Len(hooks) : hooks[h].persist # "indexedDB"
       /\ \E i \in {UNDEF, "i1"} :
             Mount("a", i, "indexedDB", NoTTL, UNDEF, MaxCalls)
    \/ Effects
    \/ Rerender
    \/ System
    \/ Fault

SpecHook == InitHook /\ [][NextHook]_vars

\* Removes of one key of a store that holds two, engine faults.
MenuRemove == {RemoveKey("a"), GetKeys}

NextRemove ==
    \/ \E o \in MenuRemove : Call(o, MaxCalls)
    \/ System
    \/ Fault

SpecRemove == InitStored /\ [][NextRemove]_vars

\* Writes over a store that holds records: with and without a time to live (0,
\* the preset "forever", and a negative number included), with and without a
\* category; the clock advances between the two readings a write makes of it.
MenuWrite ==
    {Set("a", "v1", None, UNDEF), Set("a", "v1", Some(1), "B"),
     Set("b", "v3", Some(0), UNDEF), Set("b", "v3", Some(-1), "B")}

NextWrite ==
    \/ \E o \in MenuWrite : Call(o, MaxCalls)
    \/ System

SpecWrite == InitStored /\ [][NextWrite]_vars

\* Writes through the binding layer, persisted ("a") and not ("b"), over an
\* engine that may fail.
NextShared ==
    \/ \E v \in {"v1", UNDEF} :
          CallSetSharedData("a", v, "indexedDB", NoTTL, UNDEF, MaxCalls)
    \/ CallSetSharedData("b", "v2", "memory", NoTTL, UNDEF, MaxCalls)
    \/ System
    \/ Fault

SpecShared == Init /\ [][NextShared]_vars

\* A page reload: nothing in the Memory Table, no token in the location, the
\* records of the earlier session in the engine, and one component that mounts
\* a persistent hook on one of the stored keys with an initial value that is
\* not the stored one; the engine does not fail. React runs the effects and
\* renders, and the engine delivers its events, without waiting for ever.
InitReload == PageLoad({Location(None, FALSE), Location(None, TRUE)}, StoredRecords)

NextReload ==
    \/ /\ hooks = <<>>
       /\ \E k \in {"a", "b"} : \E i \in {"i1", "i2"} :
          \E t \in {NoTTL, Num(1)} : \E c \in {UNDEF, "B"} :
             Mount(k, i, "indexedDB", t, c, MaxCalls)
    \/ Effects
    \/ Rerender
    \/ System

SpecReload ==
    /\ InitReload
    /\ [][NextReload]_vars
    /\ WF_vars(Effects)
    /\ WF_vars(Rerender)
    /\ WF_vars(System)

\* Reads and writes of the key "a", and writes of another key, over a store
\* whose record of "a" expires as the clock advances.
MenuEvict == {Get("a"), Set("a", "v1", None, UNDEF), Set("b", "v3", None, UNDEF)}

NextEvict ==
    \/ \E o \in MenuEvict : Call(o, MaxCalls)
    \/ Tick
    \/ System

SpecEvict == InitStored /\ [][NextEvict]_vars

\* One value written with a time to live through the binding layer, and
\* components that mount a persistent hook on its key, with the same options
\* and no initial value, once the write has committed; the clock advances. The
\* hooks render with the value the Memory Table holds, which is the one their
\* load finds, so that no load sets a new value and no hook renders again.
NextExpiry ==
    \/ /\ hooks = <<>>
       /\ ops = <<>>
       /\ CallSetSharedData("a", "v1", "indexedDB", Num(1), UNDEF, MaxCalls)
    \/ /\ ops # <<>>
       /\ ops[1].txst = "complete"
       /\ Mount("a", UNDEF, "indexedDB", Num(1), UNDEF, MaxCalls)
    \/ Effects
    \/ Tick
    \/ System

SpecExpiry == Init /\ [][NextExpiry]_vars

\* Writes of one key, issued before and after the connection is there, with
\* different values, categories and times to live; the engine may fail.
MenuOrder == {Set("a", "v1", None, "A"), Set("a", "v2", Some(1), UNDEF)}

NextOrder ==
    \/ \E o \in MenuOrder : Call(o, MaxCalls)
    \/ System
    \/ Fault

SpecOrder == Init /\ [][NextOrder]_vars

\* ================================================================ claims
Ops == 1..Len(ops)

\* The open requests that failed: each had at least the call that made it
\* waiting for it.
FailedOpens == {ops[i].awaits : i \in {j \in Ops : ops[j].err = "open"}}

\* C1: calls made before the connection is ready cause one open of the engine.
\* At most one open request is in flight; every open is the one in flight, the
\* one that gave the connection, or one that failed, so that without a failed
\* open there is exactly one; every call that got a connection got this.db;
\* and once this.db is set no open request is in flight or started.
C1_InitSingularity ==
    /\ Cardinality(openReqs) <= 1
    /\ (db # NoDb => openReqs = {})
    /\ (ops # <<>> => opens >= 1)
    /\ opens = Cardinality(FailedOpens) + Cardinality(openReqs)
                + (IF db # NoDb THEN 1 ELSE 0)
    /\ \A i \in Ops : ops[i].conn # NoDb => ops[i].conn = db
    /\ \A i \in Ops : ops[i].phase = "init" => ops[i].awaits \in openReqs

\* Two calls waited for the same open, the only one, and both got its
\* connection.
C1_Witness ==
    \E i, j \in Ops :
        /\ i # j
        /\ ops[i].awaits # NoPromise
        /\ ops[i].awaits = ops[j].awaits
        /\ ops[i].conn = db /\ ops[j].conn = db /\ db # NoDb
        /\ opens = 1

\* The calls a caller made itself (not the sweep of a set, not the eviction of
\* a get).
CallerOp(i) == ops[i].parent = 0

Sweeps(i) == {c \in Ops : ops[c].parent = i /\ ops[c].kind = "cleanExpired"}

\* The put of the set i succeeded: its success event was delivered.
PutSucceeded(i) ==
    \/ ops[i].txst \in {"done", "complete"}
    \/ ops[i].txst = "aborted" /\ ops[i].err = "none"

\* C7: the outcome of set depends only on its own write. A set whose put
\* succeeded has resolved, whatever became of its sweep, and a set that rejected
\* was told of an error of its own open, transaction or put.
C7_SetOutcomeIsItsOwnWrite ==
    \A i \in Ops :
        ops[i].kind = "set" =>
            /\ (PutSucceeded(i) => ops[i].phase = "resolved")
            /\ (ops[i].phase = "rejected" =>
                    /\ ops[i].err \in {"open", "transaction", "request"}
                    /\ ~PutSucceeded(i))

\* A set has resolved and the sweep it started has failed.
C7_Witness ==
    \E i \in Ops :
        /\ ops[i].kind = "set"
        /\ ops[i].phase = "resolved"
        /\ \E c \in Sweeps(i) : ops[c].phase = "rejected"

Position(i) == CHOOSE n \in 1..Len(txq) : txq[n] = i
Queued(i) == \E n \in 1..Len(txq) : txq[n] = i
Started(i) == ops[i].txst # "none"
Executed(i) == ops[i].txst \in {"done", "complete", "aborted"}

\* C8: within one set the write is queued before the sweep's transaction is
\* started: the sweep's transaction exists only once the write's does, stands
\* behind it in the engine's queue, and has executed only if the write has.
C8_WriteQueuedBeforeSweep ==
    \A i \in Ops : \A c \in Sweeps(i) :
        /\ (Started(c) => Started(i))
        /\ (Queued(c) /\ Queued(i) => Position(i) < Position(c))
        /\ (Executed(c) => Executed(i))

\* A set has resolved while the sweep it started has not finished.
C8_Witness ==
    \E i \in Ops : \E c \in Sweeps(i) :
        /\ ops[i].kind = "set"
        /\ ops[i].phase = "resolved"
        /\ ops[c].phase \in {"ready", "tx"}
        /\ ops[c].txst \in {"none", "active"}

\* C9: an operation resolves to its caller only after its transaction has
\* completed: a set, remove, clear, get or getKeys that has resolved has a
\* transaction that committed (not one still open, not one that aborted).
C9_ResolvedOnlyAfterComplete ==
    \A i \in Ops :
        /\ CallerOp(i)
        /\ ops[i].kind \in {"set", "remove", "clear", "get", "getKeys"}
        /\ ops[i].phase = "resolved"
        => ops[i].txst = "complete"

\* The step in which the call i rejects.
Rejects(i) == ops[i].phase # "rejected" /\ ops'[i].phase = "rejected"

\* C10: a call the engine reports an error to rejects (it neither resolves nor
\* stays pending), nothing is retried (a call opens the engine at most once and
\* starts at most one transaction, and the step that rejects it starts no call,
\* open, transaction or microtask), and the records are as the engine left
\* them: rolled back to the last commit by a failed request, untouched by a
\* failed open or transaction.
C10_EngineErrorRejects ==
    /\ [](\A i \in Ops :
            /\ (ops[i].err # "none" => ops[i].phase = "rejected")
            /\ ops[i].opened <= 1
            /\ ops[i].txs <= 1
            /\ (ops[i].phase = "rejected" =>
                    /\ ~Queued(i)
                    /\ \A n \in 1..Len(mq) : mq[n] # i))
    /\ [][\A i \in Ops :
            Rejects(i) =>
                /\ ops'[i].err \in {"open", "transaction", "request"}
                /\ Len(ops') = Len(ops)
                /\ opens' = opens
                /\ openReqs' \subseteq openReqs
                /\ Len(txq') <= Len(txq)
                /\ Len(mq') <= Len(mq)
                /\ committed' = committed
                /\ (ops'[i].err = "request" => records' = committed)
                /\ (ops'[i].err # "request" => records' = records)]_vars

\* A call was rejected by a failed request of its one transaction, and the
\* records are those of the last commit.
C10_Witness ==
    \E i \in Ops :
        /\ ops[i].phase = "rejected"
        /\ ops[i].err = "request"
        /\ ops[i].txs = 1
        /\ records = committed

\* C4: clear(category) with a category given, the empty string included,
\* deletes no record of another category: every step of its transaction leaves
\* the records of the other categories in the store and as they were.
C4_ClearLeavesOtherCategories ==
    [][\A i \in Ops :
        /\ ops[i].kind = "clear"
        /\ ops[i].category # UNDEF
        /\ Running
        /\ Head(txq) = i
        => \A k \in DOMAIN records :
              records[k].category # ops[i].category =>
                  /\ k \in DOMAIN records'
                  /\ records'[k] = records[k]]_vars

\* ---------------------------------------------------------------- expiry
\* C2: a record written by set(key, v, {ttl: t}), t > 0, reads as v at every
\* time before its expiration (the time of the write + t, which the record
\* keeps as expires) and as absent at every time from its expiration on, that
\* very time included. The read is the get whose handler found the record the
\* set built, at the clock's value when the handler ran.
C2_AbsentFromExpiryOn ==
    \A g \in Ops : \A s \in Ops :
        /\ ops[s].kind = "set"
        /\ ops[s].ttl # None
        /\ ops[s].ttl[1] > 0
        /\ ops[g].kind = "get"
        /\ ops[g].phase = "resolved"
        /\ ops[g].rec # <<>>
        /\ ops[g].rec = ops[s].rec
        => LET r == ops[s].rec[1] IN
           /\ r.expires # None
           /\ r.expires[1] >= r.timestamp + ops[s].ttl[1]
           /\ (ops[g].readAt < r.expires[1] => ops[g].result = r.value)
           /\ (ops[g].readAt >= r.expires[1] => ops[g].result = NULL)

\* The removes the get g started.
Evictions(g) == {c \in Ops : ops[c].parent = g /\ ops[c].kind = "remove"}

\* Nothing is left to run: no microtask, no transaction, no open request.
Quiescent == mq = <<>> /\ txq = <<>> /\ openReqs = {}

\* C3: a get that finds a record whose expiration has passed resolves to
\* absent and starts one remove of its key; when nothing is left to run that
\* remove has completed unless the engine failed it, and once it has completed,
\* with no caller's call made after it was started, the key is not in the
\* store. A get that finds no record or a live one starts no remove.
C3_ExpiredReadEvicts ==
    \A g \in Ops :
        ops[g].kind = "get" =>
            /\ (ops[g].found = "expired" <=>
                    /\ ops[g].rec # <<>>
                    /\ ops[g].rec[1].expires # None
                    /\ ops[g].rec[1].expires[1] < ops[g].readAt)
            /\ (ops[g].found = "expired" =>
                    /\ ops[g].result = NULL
                    /\ Cardinality(Evictions(g)) = 1
                    /\ \A c \in Evictions(g) :
                          /\ ops[c].key = ops[g].key
                          /\ (Quiescent =>
                                \/ ops[c].txst \in {"complete", "aborted"}
                                \/ ops[c].phase = "rejected")
                          /\ (/\ ops[c].txst = "complete"
                              /\ \A j \in Ops : j > c => ~CallerOp(j)
                              => /\ ops[g].key \notin DOMAIN committed
                                 /\ ops[g].key \notin DOMAIN records))
            /\ (ops[g].found # "expired" => Evictions(g) = {})

\* A get found its record expired and the remove it started has taken the key
\* out of the store, no caller having called since.
C3_Witness ==
    \E g \in Ops :
        /\ ops[g].kind = "get"
        /\ ops[g].found = "expired"
        /\ ops[g].result = NULL
        /\ \E c \in Evictions(g) :
              /\ ops[c].txst = "complete"
              /\ \A j \in Ops : j > c => ~CallerOp(j)
        /\ ops[g].key \notin DOMAIN committed

\* ---------------------------------------------------------------- export, import
\* C5: importData(exportData()) writes each exported entry back with its key,
\* value and category, an entry without ttl as a record without expiration and
\* an entry with a ttl, whatever it is (0 included), as a record that expires,
\* that ttl after the write.
C5_ImportKeepsExpiration ==
    \A m \in Ops :
        ops[m].kind = "importData" =>
            \A n \in 1..Len(ops[m].batch) :
                LET e == JSONparse(ops[m].batch)[n]
                    c == ops[m + n]
                IN  c.rec # <<>> =>
                        /\ c.rec[1].key = e.key
                        /\ c.rec[1].value = e.value
                        /\ c.rec[1].category = e.category
                        /\ (e.ttl = None <=> c.rec[1].expires = None)
                        /\ (e.ttl # None /\ c.rec[1].expires # None =>
                                c.rec[1].expires[1] >= c.rec[1].timestamp + e.ttl[1])

\* ---------------------------------------------------------------- getMany
Lookups(m) == {c \in Ops : ops[c].parent = m /\ ops[c].kind = "get"}

Settled(i) == ops[i].phase \in {"resolved", "rejected"}

\* C6 as stated: a failed lookup does not abort the batch. Once every lookup
\* has settled getMany has resolved, with the keys whose lookup gave a value.
C6_FailedLookupIsAbsent ==
    \A m \in Ops :
        /\ ops[m].kind = "getMany"
        /\ \A c \in Lookups(m) : Settled(c)
        => /\ ops[m].phase = "resolved"
           /\ ops[m].keys = {ops[c].key : c \in {x \in Lookups(m) :
                                                   ops[x].found = "live"}}

\* C6 amended: getMany resolves when, and only when, every lookup has resolved,
\* with a mapping of exactly the keys whose lookup found a live record, each to
\* that record's value; a lookup that rejects rejects the whole call with its
\* error.
C6_GetManyAllOrNothing ==
    \A m \in Ops :
        ops[m].kind = "getMany" =>
            /\ Cardinality(Lookups(m)) = Len(ops[m].batch)
            /\ (ops[m].phase = "rejected" <=>
                    \E c \in Lookups(m) : ops[c].phase = "rejected")
            /\ (ops[m].phase = "resolved" <=>
                    \A c \in Lookups(m) : ops[c].phase = "resolved")
            /\ (ops[m].phase = "rejected" =>
                    ops[m].err \in {"open", "transaction", "request"})
            /\ (ops[m].phase = "resolved" =>
                    /\ ops[m].keys = {ops[c].key : c \in {x \in Lookups(m) :
                                                            ops[x].found = "live"}}
                    /\ DOMAIN ops[m].data = ops[m].keys
                    /\ \A c \in Lookups(m) :
                          ops[c].found = "live" =>
                              ops[m].data[ops[c].key] = ops[c].rec[1].value)

\* One lookup found its record, the other was failed by the engine, and
\* getMany rejected.
C6_Witness ==
    \E m \in Ops :
        /\ ops[m].kind = "getMany"
        /\ ops[m].phase = "rejected"
        /\ \E c \in Lookups(m) : ops[c].found = "live" /\ ops[c].phase = "resolved"
        /\ \E c \in Lookups(m) : ops[c].err = "request"

\* ---------------------------------------------------------------- remove
\* The engine delivers the success event of the request of the call i, whose
\* transaction is the running one.
Succeeds(i) ==
    /\ Running
    /\ Head(txq) = i
    /\ ops[i].txst = "active"
    /\ faults' = faults
    /\ ops'[i] # ops[i]

\* C11: remove(key) deletes the record of key when there is one and succeeds
\* without effect when there is none, so that a second remove leaves the state
\* the first left and does not fail; the records of the other keys stay as they
\* were.
C11_RemoveIdempotent ==
    [][\A i \in Ops :
        ops[i].kind = "remove" /\ Succeeds(i) =>
            /\ ops'[i].phase = "resolved"
            /\ ops'[i].err = "none"
            /\ DOMAIN records' = (DOMAIN records) \ {ops[i].key}
            /\ \A k \in DOMAIN records' : records'[k] = records[k]
            /\ (ops[i].key \notin DOMAIN records => records' = records)]_vars

\* Two removes of the same key have both resolved and committed, the key is
\* gone and the record of the other key is the one the store started with.
C11_Witness ==
    \E i, j \in Ops :
        /\ i < j
        /\ ops[i].kind = "remove" /\ ops[j].kind = "remove"
        /\ ops[i].key = ops[j].key
        /\ ops[i].phase = "resolved" /\ ops[j].phase = "resolved"
        /\ ops[i].txst = "complete" /\ ops[j].txst = "complete"
        /\ ops[i].key \notin DOMAIN committed
        /\ "b" \in DOMAIN committed
        /\ committed["b"] = StoredRecords["b"]

\* ---------------------------------------------------------------- set
\* The step in which the part of the call i after its await runs.
BodyRuns(i) == ops[i].phase = "ready" /\ ops'[i].phase = "tx"

C13_ExpiresAfterWrite ==
    \A i \in Ops :
        /\ ops[i].kind = "set"
        /\ ops[i].rec # <<>>
        /\ ops[i].rec[1].expires # None
        => ops[i].rec[1].expires[1] > ops[i].rec[1].timestamp

\* ---------------------------------------------------------------- export
\* C14: exportData returns one entry for every record that get would not find
\* expired at that time and none for the others, each with the record's key,
\* value and category and, as ttl, nothing when the record has no expiration
\* and otherwise the time that remains until it, a number that is not negative;
\* the records stay as they are.
C14_ExportsLiveRecords ==
    [][\A e \in Ops :
        ops[e].kind = "exportData" /\ Succeeds(e) =>
            LET out == JSONparse(ops'[e].data)
                live == {k \in DOMAIN records : ~Expired(records[k], now)}
            IN  /\ records' = records
                /\ ops'[e].phase = "resolved"
                /\ Len(out) = Cardinality(live)
                /\ {out[n].key : n \in 1..Len(out)} = live
                /\ \A n \in 1..Len(out) :
                      LET r == records[out[n].key] IN
                      /\ out[n].value = r.value
                      /\ out[n].category = r.category
                      /\ (r.expires = None <=> out[n].ttl = None)
                      /\ (r.expires # None =>
                            /\ out[n].ttl[1] \in
                                  {r.expires[1] - t : t \in now..now'}
                            /\ out[n].ttl[1] >= 0)]_vars

\* ---------------------------------------------------------------- memory table
\* What the calls h made so far leave under the key k: the value of the last
\* setMemory(k, v) that no clearMemory(k) and no clearMemory() followed, and
\* undefined when there is none.
RECURSIVE LastSet(_, _)
LastSet(h, k) ==
    IF h = <<>> THEN UNDEF
    ELSE LET c == h[Len(h)] IN
         IF c.op = "set" /\ c.key = k THEN c.value
         ELSE IF c.op = "clear" /\ c.key \in {k, UNDEF} THEN UNDEF
         ELSE LastSet(SubSeq(h, 1, Len(h) - 1), k)

\* C15: after any calls of setMemory and clearMemory, getMemory(key) is the
\* value last set under the key and not cleared since, and undefined for a key
\* never set or cleared since, whatever string the key is.
C15_GetMemoryIsLastSet ==
    memCalls # <<>> =>
        \A k \in MemKeys : getMemory(globalStore, k) = LastSet(memCalls, k)

\* C16: clearMemory(key) with a key given, the empty string included, removes
\* the entry of that key and no other; clearMemory() empties the table.
C16_ClearMemoryFrame ==
    [][Len(memCalls') = Len(memCalls) + 1 /\ memCalls'[Len(memCalls')].op = "clear"
        => LET key == memCalls'[Len(memCalls')].key IN
           /\ (key = UNDEF => globalStore' = <<>>)
           /\ (key # UNDEF =>
                 /\ DOMAIN globalStore' = (DOMAIN globalStore) \ {key}
                 /\ \A k \in DOMAIN globalStore' :
                       globalStore'[k] = globalStore[k])]_vars

\* ---------------------------------------------------------------- TTL resolver
\* The sets the binding layer called with a ttl option.
Bound(i) == ops[i].kind = "set" /\ ops[i].options # <<>>

\* C18: the number 60 resolves to 60 minutes: a write through the binding
\* layer with ttl: 60 resolves it to 60 * 60000 ms and its record expires that
\* long after the write.
C18_SixtyIsSixtyMinutes ==
    \A i \in Ops :
        Bound(i) /\ ops[i].options[1] = Num(60) =>
            /\ ops[i].ttl = Some(60 * 60000)
            /\ (ops[i].rec # <<>> =>
                    /\ ops[i].rec[1].expires # None
                    /\ ops[i].rec[1].expires[1] >=
                            ops[i].rec[1].timestamp + 60 * 60000)

\* A string that is digits only.
BareInteger(s) == s # <<>> /\ Span(s, DOMAIN Digit) = Len(s)

\* C19: a string ttl that is no preset name resolves to integer x unit when it
\* is <integer><optional space><unit>[s], to that many minutes when it is a
\* bare integer, and to nothing otherwise, the record then having no
\* expiration.
C19_StringTTL ==
    \A i \in Ops :
        /\ Bound(i)
        /\ ops[i].options[1].type = "string"
        /\ ops[i].options[1].s \notin PresetNames
        => LET s == ops[i].options[1].s IN
           /\ (match(s) # None =>
                 ops[i].ttl = Some(Decimal(match(s)[1][1])
                                    * multipliers(match(s)[1][2])))
           /\ (match(s) = None /\ BareInteger(s) =>
                 ops[i].ttl = Some(Decimal(s) * 60000))
           /\ (match(s) = None /\ ~BareInteger(s) =>
                 /\ ops[i].ttl = None
                 /\ (ops[i].rec # <<>> => ops[i].rec[1].expires = None))

\* ---------------------------------------------------------------- URL transfer
\* The location carries the reserved parameter, with a value.
Carries(loc) == loc.window /\ loc.ndata # None /\ NonEmpty(loc.ndata[1])

C21_MemoryFirstStoreBestEffort ==
    /\ [][calls' = calls + 1 =>
            LET m == memCalls'[Len(memCalls')] IN
            /\ Len(memCalls') = Len(memCalls) + 1
            /\ m.op = "set"
            /\ getMemory(globalStore', m.key) = m.value
            /\ \A k \in (DOMAIN globalStore) \ {m.key} :
                  getMemory(globalStore', k) = globalStore[k]
            /\ (m.key = "b" => ops' = ops)
            /\ (m.key = "a" =>
                  /\ Len(ops') = Len(ops) + 1
                  /\ SubSeq(ops', 1, Len(ops)) = ops
                  /\ LET o == ops'[Len(ops')] IN
                     /\ o.kind = "set" /\ o.key = m.key /\ o.value = m.value
                     /\ o.parent = 0
                     /\ o.phase \in {"init", "ready"}
                     /\ o.txst = "none"
                     /\ o.rec = <<>>)
            /\ txq' = txq
            /\ records' = records]_vars
    /\ [][calls' = calls =>
            /\ globalStore' = globalStore
            /\ memCalls' = memCalls]_vars
    /\ [](\A i \in Ops :
            /\ Bound(i)
            /\ \A j \in Ops : j > i /\ Bound(j) => ops[j].key # ops[i].key
            => getMemory(globalStore, ops[i].key) = ops[i].value)

\* A write through the binding layer was failed by the engine, and the Memory
\* Table holds its value.
C21_Witness ==
    \E i \in Ops :
        /\ Bound(i)
        /\ ops[i].phase = "rejected"
        /\ ops[i].value = "v1"
        /\ \A j \in Ops : j > i => ~Bound(j)
        /\ getMemory(globalStore, ops[i].key) = "v1"

\* ---------------------------------------------------------------- reload
\* The hook, the Memory Table and the store all hold the value the store held
\* under the hook's key when the page was loaded.
Restored(h) ==
    LET key == hooks[h].key
        v == StoredRecords[key].value
    IN  /\ hooks[h].value = v
        /\ ~hooks[h].stale
        /\ getMemory(globalStore, key) = v
        /\ key \in DOMAIN committed
        /\ committed[key].value = v
        /\ key \in DOMAIN records
        /\ records[key].value = v

\* C22: persisted data survives a reload. A persistent hook mounted over a
\* live record of its key, with an initial value that is not the record's,
\* reads the record before its own write of the initial value reaches the
\* store, and in the end the hook, the Memory Table and the store hold the
\* record's value.
C22_PersistedSurvivesReload ==
    /\ [](\A h \in 1..Len(hooks) :
            ~hooks[h].loaded =>
                /\ hooks[h].key \in DOMAIN records
                /\ records[hooks[h].key] = StoredRecords[hooks[h].key])
    /\ [](\A h \in 1..Len(hooks) :
            hooks[h].loaded =>
                /\ ops[hooks[h].load].found = "live"
                /\ ops[hooks[h].load].result = StoredRecords[hooks[h].key].value)
    /\ [](hooks # <<>> => <>[](hooks # <<>> /\ Restored(1)))

\* The initial value reached the store after the load, and the stored value
\* has been written back over it.
C22_Witness ==
    /\ hooks # <<>>
    /\ Restored(1)
    /\ Quiescent
    /\ \E i \in Ops :
          /\ ops[i].kind = "set"
          /\ ops[i].value = hooks[1].initialValue
          /\ ops[i].txst = "complete"
          /\ ops[i].value # StoredRecords[hooks[1].key].value

\* ---------------------------------------------------------------- eviction
\* C23: the remove a get starts for an expired record does not delete a record
\* that a set issued after the get wrote. For a caller's set of a key that has
\* committed, every get that found the key expired having been issued before
\* it and no caller having written the key since, the store holds the set's
\* record (the callers here remove and clear nothing, and the record has no
\* expiration).
C23_EvictionSparesLaterSet ==
    \A s \in Ops :
        /\ CallerOp(s)
        /\ ops[s].kind = "set"
        /\ ops[s].txst = "complete"
        /\ \A g \in Ops :
              ops[g].kind = "get" /\ ops[g].key = ops[s].key /\ Evictions(g) # {}
                  => g < s
        /\ \A j \in Ops :
              j > s /\ CallerOp(j) /\ ops[j].kind = "set" => ops[j].key # ops[s].key
        => /\ ops[s].key \in DOMAIN committed
           /\ committed[ops[s].key] = ops[s].rec[1]

\* ---------------------------------------------------------------- sweep
\* C24: the sweep a set starts deletes only records that a get at that moment
\* would find expired: a record its cursor deletes has an expiration and the
\* clock has passed it.
C24_SweepDeletesOnlyExpired ==
    [][\A c \in Ops :
        /\ ops[c].kind = "cleanExpired"
        /\ Running
        /\ Head(txq) = c
        /\ ops[c].txst = "active"
        => \A k \in (DOMAIN records) \ (DOMAIN records') :
                Expired(records[k], now)]_vars

\* ---------------------------------------------------------------- expiry and reads
\* C25: mounting hooks on a key and loading its value does not change when the
\* record expires. Here one caller wrote the key once, through the binding
\* layer (the first call of set), and every later call comes from a hook that
\* mounted without an initial value: for as long as the store holds a record
\* of the key, it expires when the record of that first write expires.
C25_ReadsKeepExpiration ==
    /\ ops # <<>>
    /\ ops[1].kind = "set"
    /\ ops[1].txst = "complete"
    /\ ops[1].key \in DOMAIN committed
    => /\ committed[ops[1].key].value = ops[1].value
       /\ committed[ops[1].key].expires = ops[1].rec[1].expires

\* ---------------------------------------------------------------- failed open
\* C26: when the open request fails, every call that awaits it rejects with
\* the error and the store has no connection and no initialization in flight;
\* a call made in that state opens the engine anew and awaits that open; no
\* call ever awaits an open that has been answered.
C26_FailedInitRecovers ==
    /\ [][\A p \in openReqs :
            p \notin openReqs' /\ db' = NoDb =>
                /\ db = NoDb
                /\ initPromise' = NoPromise
                /\ openReqs' = {}
                /\ opens' = opens
                /\ \A i \in Ops :
                      ops[i].phase = "init" /\ ops[i].awaits = p =>
                          /\ ops'[i].phase = "rejected"
                          /\ ops'[i].err = "open"]_vars
    /\ [][calls' = calls + 1 /\ db = NoDb /\ initPromise = NoPromise =>
            /\ opens' = opens + 1
            /\ initPromise' = opens'
            /\ openReqs' = {opens'}
            /\ Len(ops') = Len(ops) + 1
            /\ ops'[Len(ops')].phase = "init"
            /\ ops'[Len(ops')].awaits = opens']_vars
    /\ [](\A i \in Ops :
            ops[i].phase = "init" =>
                /\ ops[i].awaits \in openReqs
                /\ ops[i].awaits = initPromise)
    /\ [](openReqs = {} => initPromise = NoPromise)

\* The first open failed and rejected the call that awaited it; a later call
\* opened the engine again, got the connection and resolved.
C26_Witness ==
    \E i, j \in Ops :
        /\ i < j
        /\ ops[i].phase = "rejected"
        /\ ops[i].err = "open"
        /\ ops[i].awaits = 1
        /\ ops[j].awaits = 2
        /\ ops[j].conn = db
        /\ db = 2
        /\ ops[j].phase = "resolved"
        /\ opens = 2

\* ---------------------------------------------------------------- write order
\* C27: writes of one key take effect in the order they were issued. When the
\* caller's sets of a key have all resolved and nothing is left to run, the
\* store holds under the key the record of the set issued last: its value, its
\* category and its expiration.
C27_LastWriteWins ==
    \A i, j \in Ops :
        /\ i < j
        /\ CallerOp(i) /\ ops[i].kind = "set"
        /\ CallerOp(j) /\ ops[j].kind = "set"
        /\ ops[i].key = ops[j].key
        /\ \A n \in Ops : CallerOp(n) /\ ops[n].kind = "set" => n <= j
        /\ \A n \in Ops : CallerOp(n) => ops[n].phase = "resolved"
        /\ Quiescent
        => /\ ops[j].key \in DOMAIN committed
           /\ committed[ops[j].key] = ops[j].rec[1]

\* ---------------------------------------------------------------- URL frame
\* C28: extractFromURL changes nothing of the location but the reserved
\* parameter: the other parameters of the query are there after the call as
\* before (those of a URL createTransferURL built from a path with a query
\* included), and a location without the parameter is not changed at all.
C28_ExtractKeepsTheRest ==
    [][Len(extracted') = Len(extracted) + 1 =>
        /\ location'.window = location.window
        /\ location'.rest = location.rest
        /\ (location = createTransferURL(TRUE, "a" :> "u1") => location'.rest)
        /\ (location.ndata = None => location' = location)]_vars

====
